---- MODULE Spec2Model ----
(***************************************************************************)
(* State-machine model of the quiz application (src/quiz_app.py, the       *)
(* latest revision): the tolerant loader, the question list, the session   *)
(* (current index, answers map, widget variables) and the scorer.          *)
(*                                                                         *)
(* Conventions.  A Python str that the code inspects character by          *)
(* character is a sequence of one-character strings; a Python str that is  *)
(* only stored or compared is a TLA+ string.  A JSON value is a record     *)
(* [t |-> tag, v |-> payload].  Python indices are 0-based and kept so:    *)
(* questions is a TLA+ sequence, so questions[i] of the code is            *)
(* questions[i + 1] here.                                                  *)
(***************************************************************************)
EXTENDS Integers, Sequences, FiniteSets, TLC

VARIABLES
    questions,       \* self.questions: list of parsed question records
    user_answers,    \* self.user_answers: dict index -> chosen letter
    current_index,   \* self.current_index
    metadata,        \* self.metadata: dict of the v2 metadata
    learning_mode,   \* self.learning_mode (tk.BooleanVar)
    slides_mode,     \* self.slides_mode (tk.BooleanVar)
    choice_var,      \* self.choice_var (tk.StringVar of the radio buttons)
    progress_var,    \* self.progress_var (tk.StringVar of the progress label)
    quiz_title_var,  \* self.quiz_title_var (tk.StringVar of the header)
    prev_btn,        \* state of self.prev_btn
    next_btn,        \* state of self.next_btn
    submit_btn,      \* state of self.submit_btn
    unanswered_btn,  \* state of self.unanswered_btn
    msg,             \* the messagebox shown by the last handler
    answer_field,    \* harness: the argument of extract_correct_letter
    letter_out,      \* harness: the result of extract_correct_letter
    document,        \* harness: the document the last open_json was given
    item_options,    \* harness: the 'options' of the item given to the parser
    parsed_out,      \* harness: what _parse_questions_list returned for it
    file_text,       \* harness: the text of the file given to _read_json_loose
    loaded_out,      \* harness: what _read_json_loose returned for it
    fill_pc,         \* harness: where the user filling in the answers stands
    iterations       \* harness: the answers recorded while filling in

vars == <<questions, user_answers, current_index, metadata, learning_mode,
          slides_mode, choice_var, progress_var, quiz_title_var, prev_btn,
          next_btn, submit_btn, unanswered_btn, msg, answer_field, letter_out,
          document, item_options, parsed_out, file_text, loaded_out, fill_pc,
          iterations>>

appVars == <<questions, user_answers, current_index, metadata, learning_mode,
             slides_mode, choice_var, progress_var, quiz_title_var, prev_btn,
             next_btn, submit_btn, unanswered_btn, msg>>

harnessVars == <<answer_field, letter_out, document, item_options, parsed_out,
                 file_text, loaded_out, fill_pc, iterations>>

----------------------------------------------------------------------------
(* Bounds of the model. *)

\* A generated document holds a sub-list of the first MaxEntries raw entries.
MaxEntries == 4

\* Longest answer text given to extract_correct_letter by the harness.
MaxTextLen == 3

\* Longest 'options' list given to _parse_questions_list by the harness.
MaxOptions == 5

\* Longest string value in the file given to _read_json_loose by the harness.
MaxStringLen == 4

----------------------------------------------------------------------------
(* JSON values. *)

Str(s) == [t |-> "str", v |-> s]
Num(s) == [t |-> "num", v |-> s]
Bool(b) == [t |-> "bool", v |-> b]
List(l) == [t |-> "list", v |-> l]
Dict(d) == [t |-> "dict", v |-> d]
Null == [t |-> "null", v |-> <<>>]

\* The empty dict {} (a function with an empty domain).
EmptyDict == <<>>

\* dict.get(key, default)
Get(d, key, default) == IF key \in DOMAIN d THEN d[key] ELSE default

\* Python truthiness of a JSON value (None, "", 0, [], {} and False are falsy).
Truthy(x) ==
    CASE x.t = "null" -> FALSE
      [] x.t = "str"  -> x.v # <<>>
      [] x.t = "num"  -> x.v # <<"0">>
      [] x.t = "bool" -> x.v
      [] x.t = "list" -> x.v # <<>>
      [] x.t = "dict" -> DOMAIN x.v # {}

\* str(x) for the values the loader converts: a str is itself, a number is
\* its digits, None is "None".
str(x) ==
    CASE x.t = "str"  -> x.v
      [] x.t = "num"  -> x.v
      [] x.t = "null" -> <<"N", "o", "n", "e">>
      [] OTHER        -> <<"?">>

----------------------------------------------------------------------------
(* Text helpers: str.upper, str.strip, str.startswith. *)

LETTER_CHOICES == <<"A", "B", "C", "D">>

Letters == {LETTER_CHOICES[i] : i \in DOMAIN LETTER_CHOICES}

\* ch.upper() over the characters the model uses.
upper(ch) ==
    CASE ch = "a" -> "A"
      [] ch = "b" -> "B"
      [] ch = "c" -> "C"
      [] ch = "d" -> "D"
      [] ch = "q" -> "Q"
      [] ch = "x" -> "X"
      [] OTHER    -> ch

IsSpace(ch) == ch = " "

RECURSIVE lstrip(_)
lstrip(s) ==
    IF s # <<>> /\ IsSpace(Head(s)) THEN lstrip(Tail(s)) ELSE s

RECURSIVE rstrip(_)
rstrip(s) ==
    IF s # <<>> /\ IsSpace(s[Len(s)]) THEN rstrip(SubSeq(s, 1, Len(s) - 1)) ELSE s

strip(s) == rstrip(lstrip(s))

upperText(s) == [i \in DOMAIN s |-> upper(s[i])]

startswith(s, prefix) ==
    /\ Len(s) >= Len(prefix)
    /\ SubSeq(s, 1, Len(prefix)) = prefix

----------------------------------------------------------------------------
(* _read_json_loose: the three re.sub passes and json.loads. *)

\* The characters \s matches, which are also the whitespace of JSON.
Whitespace == {" ", "\t", "\n", "\r"}

\* text[i:i+2] == pair
At(text, i, pair) ==
    /\ i + 1 <= Len(text)
    /\ text[i] = pair[1]
    /\ text[i + 1] = pair[2]

\* The position of the first "\n" from i on, Len(text) + 1 if none: where
\* `.*?$` stops under re.MULTILINE.
EndOfLine(text, i) ==
    IF \E j \in i..Len(text) : text[j] = "\n"
    THEN CHOOSE j \in i..Len(text) :
             text[j] = "\n" /\ \A k \in i..(j - 1) : text[k] # "\n"
    ELSE Len(text) + 1

\* `(^|[\s\[{,])` matches before position i.
CommentMayStart(text, i) ==
    \/ i = 1
    \/ text[i - 1] \in Whitespace \cup {"[", "{", ","}

\* re.sub(r'(^|[\s\[{,])//.*?$', r'\1', text, flags=re.MULTILINE), from
\* position i on.
RECURSIVE StripLineComments(_, _, _)
StripLineComments(text, i, out) ==
    IF i > Len(text) THEN out
    ELSE IF At(text, i, <<"/", "/">>) /\ CommentMayStart(text, i)
    THEN StripLineComments(text, EndOfLine(text, i), out)
    ELSE StripLineComments(text, i + 1, Append(out, text[i]))

\* re.sub(r'/\*.*?\*/', '', text, flags=re.DOTALL), from position i on.
RECURSIVE StripBlockComments(_, _, _)
StripBlockComments(text, i, out) ==
    IF i > Len(text) THEN out
    ELSE IF At(text, i, <<"/", "*">>)
            /\ \E j \in (i + 2)..Len(text) : At(text, j, <<"*", "/">>)
    THEN LET j == CHOOSE j \in (i + 2)..Len(text) :
                      /\ At(text, j, <<"*", "/">>)
                      /\ \A k \in (i + 2)..(j - 1) : ~At(text, k, <<"*", "/">>)
         IN  StripBlockComments(text, j + 2, out)
    ELSE StripBlockComments(text, i + 1, Append(out, text[i]))

\* The first position from i on that holds no whitespace.
RECURSIVE SkipWhitespace(_, _)
SkipWhitespace(text, i) ==
    IF i <= Len(text) /\ text[i] \in Whitespace
    THEN SkipWhitespace(text, i + 1) ELSE i

\* re.sub(r',\s*([\]}])', r'\1', text), from position i on.
RECURSIVE StripTrailingCommas(_, _, _)
StripTrailingCommas(text, i, out) ==
    IF i > Len(text) THEN out
    ELSE LET j == SkipWhitespace(text, i + 1)
         IN  IF text[i] = "," /\ j <= Len(text) /\ text[j] \in {"]", "}"}
             THEN StripTrailingCommas(text, j + 1, Append(out, text[j]))
             ELSE StripTrailingCommas(text, i + 1, Append(out, text[i]))

\* The text json.loads is given.
Preprocess(text) ==
    StripTrailingCommas(
        StripBlockComments(StripLineComments(text, 1, <<>>), 1, <<>>), 1, <<>>)

\* json.loads raising JSONDecodeError.
JSONDecodeError == [t |-> "error", v |-> <<>>]

\* The position of the first '"' from i on, 0 if none.
ClosingQuote(text, i) ==
    IF \E j \in i..Len(text) : text[j] = "\""
    THEN CHOOSE j \in i..Len(text) :
             text[j] = "\"" /\ \A k \in i..(j - 1) : text[k] # "\""
    ELSE 0

\* json.loads at position i of an array whose elements so far are acc: a
\* string is expected, or "]" while acc is empty.  The texts of the model
\* hold arrays of strings without escapes, any other value is an error.
RECURSIVE LoadsArray(_, _, _)
LoadsArray(text, i, acc) ==
    IF i > Len(text) THEN JSONDecodeError
    ELSE IF text[i] = "]" /\ acc = <<>>
    THEN IF SkipWhitespace(text, i + 1) > Len(text) THEN List(acc) ELSE JSONDecodeError
    ELSE IF text[i] # "\"" \/ ClosingQuote(text, i + 1) = 0 THEN JSONDecodeError
    ELSE LET j == ClosingQuote(text, i + 1)
             k == SkipWhitespace(text, j + 1)
             elems == Append(acc, Str(SubSeq(text, i + 1, j - 1)))
         IN  IF k > Len(text) THEN JSONDecodeError
             ELSE IF text[k] = "," THEN LoadsArray(text, SkipWhitespace(text, k + 1), elems)
             ELSE IF text[k] = "]" /\ SkipWhitespace(text, k + 1) > Len(text) THEN List(elems)
             ELSE JSONDecodeError

\* json.loads(text)
loads(text) ==
    LET i == SkipWhitespace(text, 1)
    IN  IF i > Len(text) \/ text[i] # "[" THEN JSONDecodeError
        ELSE LoadsArray(text, SkipWhitespace(text, i + 1), <<>>)

_read_json_loose(text) == loads(Preprocess(text))

----------------------------------------------------------------------------
(* extract_correct_letter *)

\* The loop with its test written `ch in LETTER_CHOICES`.
RECURSIVE ScanLetterCaseSensitive(_, _)
ScanLetterCaseSensitive(s, i) ==
    IF i > Len(s) THEN ""
    ELSE IF s[i] \in Letters THEN s[i]
    ELSE ScanLetterCaseSensitive(s, i + 1)

\* The for loop over the characters of s, from position i on.
RECURSIVE ScanLetter(_, _)
ScanLetter(s, i) ==
    IF i > Len(s) THEN ""
    ELSE IF upper(s[i]) \in Letters THEN upper(s[i])
    ELSE ScanLetter(s, i + 1)

extract_correct_letter(field) ==
    IF field.t # "str" THEN ""
    ELSE ScanLetter(strip(field.v), 1)

----------------------------------------------------------------------------
(* _parse_questions_list *)

\* display_options = None
None == <<>>

\* The loop body with its test written for the label of any position.
NormalizeOptionAnyLabel(i, opt) ==
    LET t == strip(str(opt))
        label == <<LETTER_CHOICES[i + 1], ")">>
    IN  IF \E j \in DOMAIN LETTER_CHOICES :
              startswith(upperText(t), <<LETTER_CHOICES[j], ")">>)
        THEN t ELSE label \o <<" ">> \o t

\* The loop body without its test: the label is always prepended.
NormalizeOptionAlwaysPrepend(i, opt) ==
    LET t == strip(str(opt))
        label == <<LETTER_CHOICES[i + 1], ")">>
    IN  label \o <<" ">> \o t

\* One pass of the loop body over item["options"][:4]: the label of position
\* i (0-based) is prepended unless the trimmed text already starts with it.
NormalizeOption(i, opt) ==
    LET t == strip(str(opt))
        label == <<LETTER_CHOICES[i + 1], ")">>
    IN  IF startswith(upperText(t), label) THEN t ELSE label \o <<" ">> \o t

DisplayOptions(item) ==
    IF /\ "options" \in DOMAIN item
       /\ item["options"].t = "list"
       /\ Len(item["options"].v) >= 4
    THEN [i \in 1..4 |-> NormalizeOption(i - 1, item["options"].v[i])]
    ELSE None

\* The record appended for one accepted item.
QuestionRecord(item) ==
    [question      |-> strip(str(item["question"])),
     answer_letter |-> extract_correct_letter(item["answer"]),
     options       |-> DisplayOptions(item),
     explanation   |-> Get(item, "explanation", Str(<<>>))]

\* The `continue` tests with a third one, for items without four options.
IsValidItemWithOptions(item) ==
    /\ item.t = "dict"
    /\ "question" \in DOMAIN item.v
    /\ "answer" \in DOMAIN item.v
    /\ "options" \in DOMAIN item.v
    /\ item.v["options"].t = "list"
    /\ Len(item.v["options"].v) >= 4

\* The two `continue` tests of the loop.
IsValidItem(item) ==
    /\ item.t = "dict"
    /\ "question" \in DOMAIN item.v
    /\ "answer" \in DOMAIN item.v

\* The loop with parsed.insert(0, ...) in place of parsed.append(...).
RECURSIVE ParseFromPrepend(_, _, _)
ParseFromPrepend(items, i, parsed) ==
    IF i > Len(items) THEN parsed
    ELSE IF ~IsValidItem(items[i]) THEN ParseFromPrepend(items, i + 1, parsed)
    ELSE ParseFromPrepend(items, i + 1, <<QuestionRecord(items[i].v)>> \o parsed)

\* The loop with `return []` in place of `continue`.
RECURSIVE ParseFromAbortOnDefect(_, _, _)
ParseFromAbortOnDefect(items, i, parsed) ==
    IF i > Len(items) THEN parsed
    ELSE IF ~IsValidItem(items[i]) THEN <<>>
    ELSE ParseFromAbortOnDefect(items, i + 1, Append(parsed, QuestionRecord(items[i].v)))

\* The for loop over items, from position i on, appending to parsed.
RECURSIVE ParseFrom(_, _, _)
ParseFrom(items, i, parsed) ==
    IF i > Len(items) THEN parsed
    ELSE IF ~IsValidItem(items[i]) THEN ParseFrom(items, i + 1, parsed)
    ELSE ParseFrom(items, i + 1, Append(parsed, QuestionRecord(items[i].v)))

_parse_questions_list(items) == ParseFrom(items, 1, <<>>)

----------------------------------------------------------------------------
(* os.path.basename and os.path.splitext on a path text. *)

\* Index of the last occurrence of ch in s, 0 if none.
LastIndexOf(s, ch) ==
    IF \E i \in DOMAIN s : s[i] = ch
    THEN CHOOSE i \in DOMAIN s : s[i] = ch /\ \A j \in DOMAIN s : s[j] = ch => j <= i
    ELSE 0

basename(path) == SubSeq(path, LastIndexOf(path, "/") + 1, Len(path))

\* The name taken without os.path.splitext.
splitext_root_keep_ext(base) == base

\* splitext(base)[0]: the extension starts at the last dot, unless only dots
\* precede it.
splitext_root(base) ==
    LET d == LastIndexOf(base, ".")
    IN  IF d > 0 /\ \E j \in 1..(d - 1) : base[j] # "."
        THEN SubSeq(base, 1, d - 1)
        ELSE base

----------------------------------------------------------------------------
(* _load_from_data: what the body computes up to the commit or the raise. *)

ErrNoQuestionsArray == "JSON root is an object but no valid 'questions' array was found."
ErrUnsupported == "Unsupported JSON structure. Expect a list or an object with a 'questions' array."
ErrNoValidSameAsUnsupported == ErrUnsupported
ErrNoValid == "No valid questions found. Each question needs 'question', 'answer', and 4 'options'."
ErrJsonDecode == "JSONDecodeError"

\* config.learning_mode.instant_feedback when it is a bool, else None.
ConfigFlag(data, section, key) ==
    LET cfg == Get(data, "config", Dict(EmptyDict))
        sec == IF cfg.t = "dict" THEN Get(cfg.v, section, Dict(EmptyDict)) ELSE Null
        val == IF sec.t = "dict" THEN Get(sec.v, key, Null) ELSE Null
    IN  IF val.t = "bool" THEN val ELSE Null

\* Lines 209-248.  error is the text of the ValueError raised, "" if none;
\* metadata is the value of self.metadata at that point.
LoadFromData(data, file_path) ==
    LET name == splitext_root(basename(file_path))
    IN  IF data.t = "list" THEN
            LET parsed == _parse_questions_list(data.v)
            IN  [error        |-> IF parsed = <<>> THEN ErrNoValid ELSE "",
                 metadata     |-> EmptyDict,
                 parsed       |-> parsed,
                 quiz_title   |-> name,
                 set_learning |-> Null,
                 set_slides   |-> Null]
        ELSE IF data.t = "dict" THEN
            LET qs == Get(data.v, "questions", Null)
                md == Get(data.v, "metadata", Dict(EmptyDict))
                metadata_title == IF md.t = "dict" THEN Get(md.v, "title", Null) ELSE Null
            IN  IF qs.t # "list" THEN
                    [error        |-> ErrNoQuestionsArray,
                     metadata     |-> EmptyDict,
                     parsed       |-> <<>>,
                     quiz_title   |-> name,
                     set_learning |-> Null,
                     set_slides   |-> Null]
                ELSE
                    LET parsed == _parse_questions_list(qs.v)
                    IN  [error        |-> IF parsed = <<>> THEN ErrNoValid ELSE "",
                         metadata     |-> IF md.t = "dict" THEN md.v ELSE EmptyDict,
                         parsed       |-> parsed,
                         quiz_title   |-> IF Truthy(metadata_title)
                                          THEN str(metadata_title) ELSE name,
                         set_learning |-> ConfigFlag(data.v, "learning_mode", "instant_feedback"),
                         set_slides   |-> ConfigFlag(data.v, "slides_mode", "enabled")]
        ELSE
            [error        |-> ErrUnsupported,
             metadata     |-> EmptyDict,
             parsed       |-> <<>>,
             quiz_title   |-> name,
             set_learning |-> Null,
             set_slides   |-> Null]

----------------------------------------------------------------------------
(* The inputs: documents a user can open, and the paths they come from. *)

\* Raw question entries, in the order documents list them: a valid one with
\* a determinable answer and too few options; one without 'answer'; a valid
\* one with an undeterminable answer, padded question text and four options
\* of which the second is already labelled; a number; a valid one with a
\* lowercase answer and too few options; one without 'question'; a string;
\* a null; a valid one with no options; one with four options and no answer.
RawEntries ==
    << Dict([question |-> Str(<<"Q", "1">>),
             answer   |-> Str(<<"B", ".", " ", "x">>),
             options  |-> List(<<Str(<<"x">>), Str(<<"y">>), Str(<<"z">>)>>)]),
       Dict([question |-> Str(<<"Q", "2">>)]),
       Dict([question    |-> Str(<<" ", "Q", "3">>),
             answer      |-> Str(<<"?">>),
             options     |-> List(<<Str(<<"x">>), Str(<<"b", ")", "x">>),
                                    Str(<<"c">>), Str(<<"d">>)>>),
             explanation |-> Str(<<"e">>)]),
       Num(<<"7">>),
       Dict([question |-> Str(<<"Q", "5">>),
             answer   |-> Str(<<" ", "c", ")">>),
             options  |-> List(<<Str(<<"x">>), Str(<<"y">>)>>)]),
       Dict([answer |-> Str(<<"A">>)]),
       Str(<<"q">>),
       Null,
       Dict([question |-> Str(<<"Q", "9">>), answer |-> Str(<<"D">>)]),
       Dict([question |-> Str(<<"Q">>),
             options  |-> List(<<Str(<<"a">>), Str(<<"b">>),
                                 Str(<<"c">>), Str(<<"d">>)>>)]) >>

\* The members of a v2 document besides 'questions': none; a 'metadata'
\* with a title and a 'config' that turns learning mode on and gives
\* slides mode a value that is no bool; a 'metadata' whose title is the
\* empty string; a 'metadata' that is no mapping; a 'metadata' without title.
Envelopes ==
    << EmptyDict,
       [metadata |-> Dict([title |-> Str(<<"T">>), chapter |-> Str(<<"1">>)]),
        config   |-> Dict([learning_mode |-> Dict([instant_feedback |-> Bool(TRUE)]),
                           slides_mode   |-> Dict([enabled |-> Str(<<"y">>)])])],
       [metadata |-> Dict([title |-> Str(<<>>), chapter |-> Str(<<"3">>)])],
       [metadata |-> Str(<<"m">>)],
       [metadata |-> Dict([chapter |-> Str(<<"5">>)])] >>

\* The envelopes of the documents a session opens.
SessionEnvelopes == {1, 2}

FilePaths == << <<"d", "/", "a", ".", "j">> >>

\* The members of S in increasing order.
RECURSIVE Ascending(_)
Ascending(S) ==
    IF S = {} THEN <<>>
    ELSE LET m == CHOOSE x \in S : \A y \in S : x <= y
         IN  <<m>> \o Ascending(S \ {m})

\* Every sub-list of the first MaxEntries positions of RawEntries.
ItemSeqs == {Ascending(S) : S \in SUBSET {i \in DOMAIN RawEntries : i <= MaxEntries}}

Items(s) == [i \in DOMAIN s |-> RawEntries[s[i]]]

\* A document is described by its root ("list", "dict", a "scalar", or
\* "invalid" for text json.loads rejects), by what its 'questions' member is
\* ("list", "absent" or a "str"), by its entries and by its envelope.
DocSpecs ==
    {[root |-> r, q |-> "absent", items |-> <<>>, env |-> 1] : r \in {"scalar", "invalid"}}
    \cup {[root |-> "list", q |-> "list", items |-> s, env |-> 1] : s \in ItemSeqs}
    \cup {[root |-> "dict", q |-> "list", items |-> s, env |-> e] :
             s \in ItemSeqs, e \in SessionEnvelopes}
    \cup {[root |-> "dict", q |-> k, items |-> <<>>, env |-> e] :
             k \in {"absent", "str"}, e \in SessionEnvelopes}

\* Documents with the other envelopes, and documents over every sub-list of
\* RawEntries: the inputs of the loader harnesses below.
EnvelopeDocSpecs ==
    {[root |-> "dict", q |-> "list", items |-> s, env |-> e] :
        s \in ItemSeqs, e \in DOMAIN Envelopes \ SessionEnvelopes}

EntryDocSpecs ==
    {[root |-> r, q |-> "list", items |-> Ascending(S), env |-> 1] :
        r \in {"list", "dict"}, S \in SUBSET DOMAIN RawEntries}

AllDocSpecs == DocSpecs \cup EnvelopeDocSpecs \cup EntryDocSpecs

\* The value json.loads returns for a described document.
Document(d) ==
    CASE d.root = "list"   -> List(Items(d.items))
      [] d.root = "scalar" -> Num(<<"7">>)
      [] d.root = "dict"   ->
            Dict(CASE d.q = "list" -> Envelopes[d.env] @@ [questions |-> List(Items(d.items))]
                   [] d.q = "str"  -> Envelopes[d.env] @@ [questions |-> Str(<<"x">>)]
                   [] OTHER        -> Envelopes[d.env])

----------------------------------------------------------------------------
(* Widgets and message boxes. *)

NoMsg == [box |-> "none", title |-> "", text |-> "", report |-> <<>>]

MsgBox(box, title, text, report) ==
    [box |-> box, title |-> title, text |-> text, report |-> report]

\* progress_var before any load ("No file loaded"), and as progress_text
\* formats it ("Answered a/t | Q n/t").
NoFileLoaded == [text |-> "No file loaded", answered |-> 0, total |-> 0, qn |-> 0]

\* The sum with its test written `i in self.user_answers`.
RECURSIVE CountAnsweredPresent(_, _, _)
CountAnsweredPresent(answers, i, total) ==
    IF i >= total THEN 0
    ELSE (IF i \in DOMAIN answers THEN 1 ELSE 0) + CountAnsweredPresent(answers, i + 1, total)

\* sum(1 for i in range(total) if self.user_answers.get(i)), from i on.
RECURSIVE CountAnswered(_, _, _)
CountAnswered(answers, i, total) ==
    IF i >= total THEN 0
    ELSE (IF Get(answers, i, "") # "" THEN 1 ELSE 0) + CountAnswered(answers, i + 1, total)

progress_text(qs, answers, idx) ==
    [text     |-> "Answered a/t | Q n/t",
     answered |-> CountAnswered(answers, 0, Len(qs)),
     total    |-> Len(qs),
     qn       |-> IF Len(qs) > 0 THEN idx + 1 ELSE 0]

\* update_navigation_state with the test of the Next button off by one.
update_navigation_state_off_by_one(qs, idx) ==
    IF qs = <<>> THEN <<"disabled", "disabled">>
    ELSE << IF idx > 0 THEN "normal" ELSE "disabled",
            IF idx < Len(qs) THEN "normal" ELSE "disabled" >>

\* update_navigation_state: the states of <<prev_btn, next_btn>>.
update_navigation_state(qs, idx) ==
    IF qs = <<>> THEN <<"disabled", "disabled">>
    ELSE << IF idx > 0 THEN "normal" ELSE "disabled",
            IF idx < Len(qs) - 1 THEN "normal" ELSE "disabled" >>

\* load_question without its self.choice_var.set(...).
load_question_keeps_choice(qs, answers, idx) ==
    /\ current_index' = idx
    /\ UNCHANGED choice_var
    /\ IF ~(0 <= idx /\ idx < Len(qs))
       THEN UNCHANGED <<prev_btn, next_btn, progress_var>>
       ELSE /\ prev_btn' = update_navigation_state(qs, idx)[1]
            /\ next_btn' = update_navigation_state(qs, idx)[2]
            /\ progress_var' = progress_text(qs, answers, idx)

\* load_question(idx) on the question list qs and answers map answers.
\* Every caller assigns self.current_index = idx right before the call, and
\* the call assigns it again when idx is in range; out of range the call
\* returns at once and the widgets keep their values.
load_question(qs, answers, idx) ==
    /\ current_index' = idx
    /\ IF ~(0 <= idx /\ idx < Len(qs))
       THEN UNCHANGED <<choice_var, prev_btn, next_btn, progress_var>>
       ELSE /\ choice_var' = Get(answers, idx, "")
            /\ prev_btn' = update_navigation_state(qs, idx)[1]
            /\ next_btn' = update_navigation_state(qs, idx)[2]
            /\ progress_var' = progress_text(qs, answers, idx)

----------------------------------------------------------------------------
(* Scoring: the loop of submit_quiz and the score line. *)

\* "{x:.1f}" of 100.0 * correct / total, in tenths of a percent (the nearest
\* tenth, a tie going to the even one).
PctTenths(correct, total) ==
    LET q == (1000 * correct) \div total
        r == (1000 * correct) % total
    IN  IF 2 * r > total \/ (2 * r = total /\ q % 2 = 1) THEN q + 1 ELSE q

\* ok = (user == letter) of the loop body, for question i (0-based).
RowOk(qs, answers, i) ==
    Get(answers, i, "(blank)") = qs[i + 1].answer_letter

\* The line with Q{i} in place of Q{i+1}.
ResultRowZeroBased(qs, answers, i) ==
    LET user == Get(answers, i, "(blank)")
    IN  [kind    |-> "row",
         n       |-> i,
         ok      |-> RowOk(qs, answers, i),
         your    |-> IF user = "" THEN "(blank)" ELSE user,
         correct |-> qs[i + 1].answer_letter]

\* The line appended for question i.
ResultRow(qs, answers, i) ==
    LET user == Get(answers, i, "(blank)")
    IN  [kind    |-> "row",
         n       |-> i + 1,
         ok      |-> RowOk(qs, answers, i),
         your    |-> IF user = "" THEN "(blank)" ELSE user,
         correct |-> qs[i + 1].answer_letter]

\* The for loop from question i on: <<correct, lines>> at its end.
RECURSIVE SubmitLoop(_, _, _, _, _)
SubmitLoop(qs, answers, i, correct, lines) ==
    IF i >= Len(qs) THEN <<correct, lines>>
    ELSE SubmitLoop(qs, answers, i + 1,
                    IF RowOk(qs, answers, i) THEN correct + 1 ELSE correct,
                    Append(lines, ResultRow(qs, answers, i)))

\* lines of the summary: "Results:", one row per question, the score line.
Summary(qs, answers) ==
    LET end == SubmitLoop(qs, answers, 0, 0, <<[kind |-> "header"]>>)
    IN  Append(end[2], [kind    |-> "score",
                        correct |-> end[1],
                        total   |-> Len(qs),
                        pct     |-> PctTenths(end[1], Len(qs))])

----------------------------------------------------------------------------
(* The handlers. *)

InitApp ==
    /\ questions = <<>>
    /\ user_answers = EmptyDict
    /\ current_index = 0
    /\ metadata = EmptyDict
    /\ learning_mode = FALSE
    /\ slides_mode = FALSE
    /\ choice_var = ""
    /\ progress_var = NoFileLoaded
    /\ quiz_title_var = <<"(no quiz loaded)">>
    /\ prev_btn = "disabled"
    /\ next_btn = "disabled"
    /\ submit_btn = "disabled"
    /\ unanswered_btn = "disabled"
    /\ msg = NoMsg

\* letter_out before extract_correct_letter has been called by the harness.
NotCalled == "(not called)"

\* loaded_out before _read_json_loose has been called by the harness.
NotRead == [t |-> "none", v |-> <<>>]

\* document before any open_json.
NoDocument == [root |-> "none", q |-> "absent", items |-> <<>>, env |-> 1]

Init ==
    /\ InitApp
    /\ answer_field = Null
    /\ letter_out = NotCalled
    /\ document = NoDocument
    /\ item_options = Null
    /\ parsed_out = NotCalled
    /\ file_text = <<>>
    /\ loaded_out = NotRead
    /\ fill_pc = "session"
    /\ iterations = 0

\* The commit without `self.user_answers = {}`.
CommitKeepAnswers(r) ==
    /\ questions' = r.parsed
    /\ user_answers' = user_answers
    /\ metadata' = r.metadata
    /\ learning_mode' = IF r.set_learning.t = "bool" THEN r.set_learning.v ELSE learning_mode
    /\ slides_mode' = IF r.set_slides.t = "bool" THEN r.set_slides.v ELSE slides_mode
    /\ load_question(r.parsed, user_answers, 0)
    /\ submit_btn' = "normal"
    /\ unanswered_btn' = "normal"
    /\ quiz_title_var' = <<"Quiz: ">> \o r.quiz_title
    /\ msg' = MsgBox("info", "Loaded", "Loaded n questions.", <<[kind |-> "count", n |-> Len(r.parsed)]>>)

\* The commit of _load_from_data (lines 250-281) for the outcome r.
Commit(r) ==
    /\ questions' = r.parsed
    /\ user_answers' = EmptyDict
    /\ metadata' = r.metadata
    /\ learning_mode' = IF r.set_learning.t = "bool" THEN r.set_learning.v ELSE learning_mode
    /\ slides_mode' = IF r.set_slides.t = "bool" THEN r.set_slides.v ELSE slides_mode
    /\ load_question(r.parsed, EmptyDict, 0)
    /\ submit_btn' = "normal"
    /\ unanswered_btn' = "normal"
    /\ quiz_title_var' = <<"Quiz: ">> \o r.quiz_title
    /\ msg' = MsgBox("info", "Loaded", "Loaded n questions.", <<[kind |-> "count", n |-> Len(r.parsed)]>>)

\* The raise caught after self.questions was emptied.
AbortClearsQuestions(r) ==
    /\ metadata' = r.metadata
    /\ questions' = <<>>
    /\ msg' = MsgBox("error", "Error", r.error, <<>>)
    /\ UNCHANGED <<user_answers, current_index, learning_mode, slides_mode,
                   choice_var, progress_var, quiz_title_var, prev_btn, next_btn,
                   submit_btn, unanswered_btn>>

\* The raise placed after the header title is set.
AbortAfterTitle(r) ==
    /\ metadata' = r.metadata
    /\ quiz_title_var' = <<"Quiz: ">> \o r.quiz_title
    /\ msg' = MsgBox("error", "Error", r.error, <<>>)
    /\ UNCHANGED <<questions, user_answers, current_index, learning_mode, slides_mode,
                   choice_var, progress_var, prev_btn, next_btn,
                   submit_btn, unanswered_btn>>

\* The raise of _load_from_data caught by open_json: self.metadata keeps what
\* the body assigned before raising.
Abort(r) ==
    /\ metadata' = r.metadata
    /\ msg' = MsgBox("error", "Error", r.error, <<>>)
    /\ UNCHANGED <<questions, user_answers, current_index, learning_mode, slides_mode,
                   choice_var, progress_var, quiz_title_var, prev_btn, next_btn,
                   submit_btn, unanswered_btn>>

\* LoadFromData of every input, computed once.
LoadOutcome ==
    [p \in DOMAIN FilePaths, d \in {x \in AllDocSpecs : x.root # "invalid"} |->
        LoadFromData(Document(d), FilePaths[p])]

_load_from_data(p, d) ==
    IF LoadOutcome[p, d].error # "" THEN Abort(LoadOutcome[p, d]) ELSE Commit(LoadOutcome[p, d])

\* open_json with the file FilePaths[p] chosen in the dialog and the document
\* d it holds.
open_json(p, d) ==
    /\ IF d.root = "invalid"
       THEN /\ msg' = MsgBox("error", "Error", ErrJsonDecode, <<>>)
            /\ UNCHANGED <<questions, user_answers, current_index, metadata, learning_mode,
                           slides_mode, choice_var, progress_var, quiz_title_var, prev_btn,
                           next_btn, submit_btn, unanswered_btn>>
       ELSE _load_from_data(p, d)

\* open_json with the dialog cancelled.
open_json_cancel ==
    /\ msg' = NoMsg
    /\ UNCHANGED <<questions, user_answers, current_index, metadata, learning_mode,
                   slides_mode, choice_var, progress_var, quiz_title_var, prev_btn,
                   next_btn, submit_btn, unanswered_btn>>

\* self.user_answers[key] = value
Put(d, key, value) == [k \in DOMAIN d \cup {key} |-> IF k = key THEN value ELSE d[k]]

\* record_choice with `self.user_answers = {self.current_index: ...}`.
record_choice_forgets_others(choice) ==
    /\ choice_var' = choice
    /\ user_answers' = Put(EmptyDict, current_index, choice)
    /\ progress_var' = progress_text(questions, user_answers', current_index)
    /\ msg' = NoMsg
    /\ UNCHANGED <<questions, current_index, metadata, learning_mode, slides_mode,
                   quiz_title_var, prev_btn, next_btn, submit_btn, unanswered_btn>>

\* record_choice, choice being what choice_var holds when the handler runs.
record_choice(choice) ==
    /\ choice_var' = choice
    /\ user_answers' = Put(user_answers, current_index, choice)
    /\ progress_var' = progress_text(questions, user_answers', current_index)
    /\ msg' = NoMsg
    /\ UNCHANGED <<questions, current_index, metadata, learning_mode, slides_mode,
                   quiz_title_var, prev_btn, next_btn, submit_btn, unanswered_btn>>

\* next_question with the bound of its test off by one.
next_question_off_by_one ==
    /\ IF current_index < Len(questions)
       THEN load_question(questions, user_answers, current_index + 1)
       ELSE UNCHANGED <<current_index, choice_var, prev_btn, next_btn, progress_var>>
    /\ msg' = NoMsg
    /\ UNCHANGED <<questions, user_answers, metadata, learning_mode, slides_mode,
                   quiz_title_var, submit_btn, unanswered_btn>>

next_question ==
    /\ IF current_index < Len(questions) - 1
       THEN load_question(questions, user_answers, current_index + 1)
       ELSE UNCHANGED <<current_index, choice_var, prev_btn, next_btn, progress_var>>
    /\ msg' = NoMsg
    /\ UNCHANGED <<questions, user_answers, metadata, learning_mode, slides_mode,
                   quiz_title_var, submit_btn, unanswered_btn>>

\* prev_question with its test written `>= 0`.
prev_question_off_by_one ==
    /\ IF current_index >= 0
       THEN load_question(questions, user_answers, current_index - 1)
       ELSE UNCHANGED <<current_index, choice_var, prev_btn, next_btn, progress_var>>
    /\ msg' = NoMsg
    /\ UNCHANGED <<questions, user_answers, metadata, learning_mode, slides_mode,
                   quiz_title_var, submit_btn, unanswered_btn>>

prev_question ==
    /\ IF current_index > 0
       THEN load_question(questions, user_answers, current_index - 1)
       ELSE UNCHANGED <<current_index, choice_var, prev_btn, next_btn, progress_var>>
    /\ msg' = NoMsg
    /\ UNCHANGED <<questions, user_answers, metadata, learning_mode, slides_mode,
                   quiz_title_var, submit_btn, unanswered_btn>>

\* The test without its `or not self.user_answers[i]`.
IsUnansweredAbsentOnly(answers, i) == i \notin DOMAIN answers

\* The test of the loop of jump_unanswered for index i.
IsUnanswered(answers, i) == i \notin DOMAIN answers \/ answers[i] = ""

\* The first i in range(len(questions)) the loop stops at, from i on; -1 if
\* the loop runs to its end.
RECURSIVE FirstUnanswered(_, _, _)
FirstUnanswered(answers, i, total) ==
    IF i >= total THEN -1
    ELSE IF IsUnanswered(answers, i) THEN i
    ELSE FirstUnanswered(answers, i + 1, total)

jump_unanswered ==
    /\ LET i == FirstUnanswered(user_answers, 0, Len(questions))
       IN  IF i # -1
           THEN /\ load_question(questions, user_answers, i)
                /\ msg' = NoMsg
           ELSE /\ msg' = MsgBox("info", "All answered",
                                 "There are no unanswered questions.", <<>>)
                /\ UNCHANGED <<current_index, choice_var, prev_btn, next_btn, progress_var>>
    /\ UNCHANGED <<questions, user_answers, metadata, learning_mode, slides_mode,
                   quiz_title_var, submit_btn, unanswered_btn>>

\* submit_quiz that starts a new attempt once the summary is shown.
submit_quiz_clears_answers ==
    /\ msg' = IF questions = <<>>
              THEN MsgBox("warning", "No quiz", "Load a quiz first.", <<>>)
              ELSE MsgBox("info", "Quiz Summary", "summary", Summary(questions, user_answers))
    /\ user_answers' = EmptyDict
    /\ UNCHANGED <<questions, current_index, metadata, learning_mode,
                   slides_mode, choice_var, progress_var, quiz_title_var, prev_btn,
                   next_btn, submit_btn, unanswered_btn>>

submit_quiz ==
    /\ msg' = IF questions = <<>>
              THEN MsgBox("warning", "No quiz", "Load a quiz first.", <<>>)
              ELSE MsgBox("info", "Quiz Summary", "summary", Summary(questions, user_answers))
    /\ UNCHANGED <<questions, user_answers, current_index, metadata, learning_mode,
                   slides_mode, choice_var, progress_var, quiz_title_var, prev_btn,
                   next_btn, submit_btn, unanswered_btn>>

\* The keys of self.metadata show_about lists.
AboutKeys == {"chapter", "topic", "source", "author", "version", "created_utc"}

show_about ==
    /\ msg' = IF questions = <<>>
              THEN MsgBox("info", "About", "No quiz loaded yet.", <<>>)
              ELSE MsgBox("info", "About this quiz", "about",
                          << [kind |-> "title",
                              text |-> IF Truthy(Get(metadata, "title", Null))
                                       THEN str(metadata["title"]) ELSE quiz_title_var],
                             [kind |-> "keys", keys |-> DOMAIN metadata \cap AboutKeys],
                             [kind |-> "total", n |-> Len(questions)] >>)
    /\ UNCHANGED <<questions, user_answers, current_index, metadata, learning_mode,
                   slides_mode, choice_var, progress_var, quiz_title_var, prev_btn,
                   next_btn, submit_btn, unanswered_btn>>

\* The check button flips learning_mode, then runs on_toggle_learning_mode.
on_toggle_learning_mode ==
    /\ learning_mode' = ~learning_mode
    /\ msg' = NoMsg
    /\ UNCHANGED <<questions, user_answers, current_index, metadata, slides_mode,
                   choice_var, progress_var, quiz_title_var, prev_btn, next_btn,
                   submit_btn, unanswered_btn>>

toggle_slides_mode ==
    /\ slides_mode' = ~slides_mode
    /\ msg' = NoMsg
    /\ UNCHANGED <<questions, user_answers, current_index, metadata, learning_mode,
                   choice_var, progress_var, quiz_title_var, prev_btn, next_btn,
                   submit_btn, unanswered_btn>>

\* The selections tried: two of the radio buttons, and the empty selection
\* choice_var holds when record_choice runs without a button chosen.
ChoiceValues == {"", "B", "C"}

\* The handlers leave the harness variables alone.
Next ==
    \/ \E p \in DOMAIN FilePaths, d \in DocSpecs : open_json(p, d) /\ UNCHANGED harnessVars
    \/ open_json_cancel /\ UNCHANGED harnessVars
    \/ \E c \in ChoiceValues : record_choice(c) /\ UNCHANGED harnessVars
    \/ next_question /\ UNCHANGED harnessVars
    \/ prev_question /\ UNCHANGED harnessVars
    \/ jump_unanswered /\ UNCHANGED harnessVars
    \/ submit_quiz /\ UNCHANGED harnessVars
    \/ show_about /\ UNCHANGED harnessVars
    \/ on_toggle_learning_mode /\ UNCHANGED harnessVars
    \/ toggle_slides_mode /\ UNCHANGED harnessVars

Spec == Init /\ [][Next]_vars

----------------------------------------------------------------------------
(* The harness of extract_correct_letter: one call on every answer field. *)

Alphabet == {"a", "B", "c", "D", "x", " ", "."}

AnswerFields ==
    {Str(s) : s \in UNION {[1..k -> Alphabet] : k \in 0..MaxTextLen}}
    \cup {Num(<<"7">>), Null}

InitExtract ==
    /\ InitApp
    /\ answer_field \in AnswerFields
    /\ letter_out = NotCalled
    /\ document = NoDocument
    /\ item_options = Null
    /\ parsed_out = NotCalled
    /\ file_text = <<>>
    /\ loaded_out = NotRead
    /\ fill_pc = "session"
    /\ iterations = 0

call_extract_correct_letter ==
    /\ letter_out = NotCalled
    /\ letter_out' = extract_correct_letter(answer_field)
    /\ UNCHANGED <<answer_field, document, item_options, parsed_out, file_text,
                   loaded_out, fill_pc, iterations>>
    /\ UNCHANGED appVars

NextExtract == call_extract_correct_letter

SpecExtract == InitExtract /\ [][NextExtract]_vars

----------------------------------------------------------------------------
(* The harness of the loader: documents opened one after the other, each
   remembered until the next. *)

open_document ==
    \E p \in DOMAIN FilePaths, d \in DocSpecs \cup EnvelopeDocSpecs :
        /\ open_json(p, d)
        /\ document' = d
        /\ UNCHANGED <<answer_field, letter_out, item_options, parsed_out, file_text,
                       loaded_out, fill_pc, iterations>>

NextLoad == open_document

SpecLoad == Init /\ [][NextLoad]_vars

----------------------------------------------------------------------------
(* The harness of the entry parser: one document, over any sub-list of
   RawEntries, opened by a fresh application. *)

open_first_document ==
    /\ document = NoDocument
    /\ \E p \in DOMAIN FilePaths, d \in EntryDocSpecs :
          /\ open_json(p, d)
          /\ document' = d
          /\ UNCHANGED <<answer_field, letter_out, item_options, parsed_out, file_text,
                       loaded_out, fill_pc, iterations>>

NextOpen == open_first_document

SpecOpen == Init /\ [][NextOpen]_vars

----------------------------------------------------------------------------
(* The harness of filling in: after any session of loads, selections and
   navigation, the user only repeats "Jump to Unanswered, then select a
   letter on the question shown". *)

\* The letters the user selects while filling in.
FillLetters == ChoiceValues \ {""}

session_step ==
    /\ fill_pc = "session"
    /\ \/ \E p \in DOMAIN FilePaths, d \in DocSpecs : open_json(p, d)
       \/ \E c \in ChoiceValues : record_choice(c)
       \/ next_question
       \/ prev_question
    /\ UNCHANGED harnessVars

start_filling ==
    /\ fill_pc = "session"
    /\ questions # <<>>
    /\ fill_pc' = "jump"
    /\ iterations' = 0
    /\ UNCHANGED <<answer_field, letter_out, document, item_options, parsed_out,
                   file_text, loaded_out>>
    /\ UNCHANGED appVars

fill_jump ==
    /\ fill_pc = "jump"
    /\ jump_unanswered
    /\ fill_pc' = IF FirstUnanswered(user_answers, 0, Len(questions)) # -1
                  THEN "record" ELSE "jump"
    /\ UNCHANGED <<answer_field, letter_out, document, item_options, parsed_out,
                   file_text, loaded_out, iterations>>

\* The count of iterations stops one above the most a quiz can need.
fill_record ==
    /\ fill_pc = "record"
    /\ iterations <= MaxEntries
    /\ \E c \in FillLetters : record_choice(c)
    /\ fill_pc' = "jump"
    /\ iterations' = iterations + 1
    /\ UNCHANGED <<answer_field, letter_out, document, item_options, parsed_out,
                   file_text, loaded_out>>

NextFill ==
    \/ session_step
    \/ start_filling
    \/ fill_jump
    \/ fill_record

\* The user who fills in goes on: neither step is put off forever.
SpecFill ==
    /\ Init
    /\ [][NextFill]_vars
    /\ WF_vars(fill_jump)
    /\ WF_vars(fill_record)

----------------------------------------------------------------------------
(* The harness of the tolerant reader: _read_json_loose called once on the
   text of a file that holds an array of one string. *)

StringAlphabet == {"/", "*", ",", "]", " ", "x"}

StringContents == UNION {[1..n -> StringAlphabet] : n \in 0..MaxStringLen}

\* The text ["s"] for the string content s.
ArrayOfOneString(s) == <<"[", "\"">> \o s \o <<"\"", "]">>

InitLoose ==
    /\ InitApp
    /\ answer_field = Null
    /\ letter_out = NotCalled
    /\ document = NoDocument
    /\ item_options = Null
    /\ parsed_out = NotCalled
    /\ file_text \in {ArrayOfOneString(s) : s \in StringContents}
    /\ loaded_out = NotRead
    /\ fill_pc = "session"
    /\ iterations = 0

call_read_json_loose ==
    /\ loaded_out = NotRead
    /\ loaded_out' = _read_json_loose(file_text)
    /\ UNCHANGED <<answer_field, letter_out, document, item_options, parsed_out,
                   file_text, fill_pc, iterations>>
    /\ UNCHANGED appVars

NextLoose == call_read_json_loose

SpecLoose == InitLoose /\ [][NextLoose]_vars

----------------------------------------------------------------------------
(* The harness of the option labels: _parse_questions_list called once on
   one item that has a question, an answer and the 'options' drawn. *)

\* The values an option can be: plain text, blank text, text labelled "A)",
\* padded text with the bare lowercase label "b)", a number.
OptionValues ==
    {Str(<<"x">>), Str(<<" ">>), Str(<<"A", ")", "x">>),
     Str(<<" ", "b", ")">>), Num(<<"7">>)}

OptionLists == UNION {[1..n -> OptionValues] : n \in 0..MaxOptions}

\* The item the harness gives to the parser.
OptionsItem(options) ==
    Dict([question |-> Str(<<"Q">>), answer |-> Str(<<"A">>), options |-> options])

InitOptions ==
    /\ InitApp
    /\ answer_field = Null
    /\ letter_out = NotCalled
    /\ document = NoDocument
    /\ \/ item_options \in {List(o) : o \in OptionLists}
       \/ item_options = Str(<<"a", "b", "c", "d">>)
    /\ parsed_out = NotCalled
    /\ file_text = <<>>
    /\ loaded_out = NotRead
    /\ fill_pc = "session"
    /\ iterations = 0

call_parse_questions_list ==
    /\ parsed_out = NotCalled
    /\ parsed_out' = _parse_questions_list(<<OptionsItem(item_options)>>)
    /\ UNCHANGED <<answer_field, letter_out, document, item_options, file_text,
                   loaded_out, fill_pc, iterations>>
    /\ UNCHANGED appVars

NextOptions == call_parse_questions_list

SpecOptions == InitOptions /\ [][NextOptions]_vars

----------------------------------------------------------------------------
(* Properties. *)

\* The indices of range(len(questions)).
Indices == 0..(Len(questions) - 1)

\* The question indices holding a recorded, non-empty answer.
AnsweredIndices == {i \in Indices : i \in DOMAIN user_answers /\ user_answers[i] # ""}

\* C1: once a quiz is loaded, 0 <= current_index < number of questions, after
\* any sequence of navigation, jumps, selections, submissions and loads.
C1_IndexInRange ==
    questions # <<>> => (0 <= current_index /\ current_index < Len(questions))

\* A failed load attempted with the index on the last of two questions.
C1_Witness ==
    /\ Len(questions) = 2
    /\ current_index = 1
    /\ msg.box = "error"

\* C2: right after a successful load the loaded list is installed, the
\* current index is 0 and the answers map is empty.
C2_LoadResetsSession ==
    msg.title = "Loaded" =>
        /\ questions # <<>>
        /\ Len(questions) = msg.report[1].n
        /\ current_index = 0
        /\ DOMAIN user_answers = {}
        /\ choice_var = ""

\* A quiz of one question just loaded (over a session, or over clicks made
\* before any load).
C2_Witness ==
    /\ msg.title = "Loaded"
    /\ Len(questions) = 1
    /\ DOMAIN user_answers = {}

\* The characters extract_correct_letter is to recognise, and their letter.
LetterChars == {"a", "b", "c", "d", "A", "B", "C", "D"}

LetterOf(ch) ==
    CASE ch \in {"a", "A"} -> "A"
      [] ch \in {"b", "B"} -> "B"
      [] ch \in {"c", "C"} -> "C"
      [] ch \in {"d", "D"} -> "D"

\* The leftmost position of s holding one of a/b/c/d in either case, 0 if none.
FirstLetterPos(s) ==
    IF \E i \in DOMAIN s : s[i] \in LetterChars
    THEN CHOOSE i \in DOMAIN s :
            s[i] \in LetterChars /\ \A j \in 1..(i - 1) : s[j] \notin LetterChars
    ELSE 0

\* C10: extract_correct_letter returns the leftmost of a/b/c/d (either case)
\* of the text, uppercased, and "" for a non-text or a text without one.
C10_FirstLetterUppercased ==
    letter_out # NotCalled =>
        letter_out = IF answer_field.t # "str" \/ FirstLetterPos(answer_field.v) = 0
                     THEN ""
                     ELSE LetterOf(answer_field.v[FirstLetterPos(answer_field.v)])

\* A text with several letters, the leftmost in lowercase and not in front.
C10_Witness ==
    /\ answer_field = Str(<<"x", "c", "B">>)
    /\ letter_out = "C"

\* The texts of the errors _load_from_data raises.
DocLevelErrors == {ErrNoQuestionsArray, ErrUnsupported, ErrNoValid}

\* C3: a load that fails at the document level leaves the question list,
\* metadata, title, current index, answers map and mode flags of the loaded
\* quiz as they were.
C3_FailedLoadLeavesAllUnchanged ==
    [][(questions # <<>> /\ msg'.box = "error" /\ msg'.text \in DocLevelErrors)
          => UNCHANGED <<questions, metadata, quiz_title_var, current_index,
                         user_answers, learning_mode, slides_mode>>]_vars

\* The documents that hold a list of entries.
EntryDocs == {d \in DocSpecs : d.q = "list"}

HasQuestionAndAnswer(e) ==
    e.t = "dict" /\ {"question", "answer"} \subseteq DOMAIN e.v

\* The entries of document d that have both 'question' and 'answer'.
ValidEntries(d) == SelectSeq(Items(d.items), HasQuestionAndAnswer)

\* C4: a document with no valid entry fails to load; one with a valid entry
\* loads, and the question list is the valid entries in their order.
C4_LoadKeepsValidEntriesInOrder ==
    document.q = "list" =>
        IF ValidEntries(document) = <<>>
        THEN /\ msg.box = "error"
             /\ msg.text = ErrNoValid
        ELSE /\ msg.title = "Loaded"
             /\ Len(questions) = Len(ValidEntries(document))
             /\ \A i \in DOMAIN questions :
                   questions[i] = QuestionRecord(ValidEntries(document)[i].v)

\* Two questions loaded from a document that also held dropped entries: the
\* first and the third raw entry, in that order.
C4_Witness ==
    /\ document.items = <<1, 2, 3, 4>>
    /\ msg.title = "Loaded"
    /\ Len(questions) = 2
    /\ questions[1].question = <<"Q", "1">>
    /\ questions[2].question = <<"Q", "3">>

\* The rows of the summary shown by submit_quiz.
SummaryRows == {k \in DOMAIN msg.report : msg.report[k].kind = "row"}

\* C5: submit_quiz never marks correct a question whose correct letter is
\* empty, whatever the answers map holds for it.
C5_UndeterminableNeverCorrect ==
    msg.title = "Quiz Summary" =>
        \A k \in SummaryRows : msg.report[k].correct = "" => ~msg.report[k].ok

\* C6: next_question at the last index and prev_question at index 0 leave
\* the index, the answers and the questions unchanged; elsewhere they move
\* the index by +1 and -1.
C6_BoundaryNoOps ==
    [][/\ (questions # <<>> /\ next_question) =>
             /\ UNCHANGED <<user_answers, questions>>
             /\ current_index' = IF current_index = Len(questions) - 1
                                 THEN current_index ELSE current_index + 1
       /\ prev_question =>
             /\ UNCHANGED <<user_answers, questions>>
             /\ current_index' = IF current_index = 0
                                 THEN current_index ELSE current_index - 1]_vars

\* On the last of two questions, with an answer recorded, after a handler
\* that showed nothing.
C6_Witness ==
    /\ Len(questions) = 2
    /\ current_index = 1
    /\ next_btn = "disabled"
    /\ msg.box = "none"
    /\ DOMAIN user_answers # {}

\* C7: jump_unanswered moves to the lowest index without a recorded non-empty
\* answer, and reports that there is none, without moving, exactly when
\* every index has one.
C7_JumpToLowestUnanswered ==
    [][jump_unanswered =>
          IF Indices \ AnsweredIndices = {}
          THEN /\ msg'.title = "All answered"
               /\ current_index' = current_index
          ELSE /\ msg'.title # "All answered"
               /\ current_index' \in Indices \ AnsweredIndices
               /\ \A j \in Indices \ AnsweredIndices : current_index' <= j]_vars

\* The report that nothing is unanswered, on a quiz of two questions.
C7_Witness ==
    /\ msg.title = "All answered"
    /\ Len(questions) = 2
    /\ AnsweredIndices = {0, 1}

\* C8: the progress shown is (number of indices with a non-empty recorded
\* answer, number of questions, 1-based position); a stored empty choice is
\* not counted, and 0 <= answered <= total.
C8_ProgressCountsNonEmpty ==
    progress_var.text # "No file loaded" =>
        /\ progress_var.answered = Cardinality(AnsweredIndices)
        /\ progress_var.total = Len(questions)
        /\ questions # <<>> => progress_var.qn = current_index + 1
        /\ 0 <= progress_var.answered
        /\ progress_var.answered <= progress_var.total

\* The current question holds a stored empty choice and is not counted, the
\* other question is.
C8_Witness ==
    /\ Len(questions) = 2
    /\ current_index \in DOMAIN user_answers
    /\ user_answers[current_index] = ""
    /\ choice_var = ""
    /\ progress_var.answered = 1

\* C9: correctCount is the number of rows marked correct, the percentage is
\* 100 * correctCount / totalCount (to a tenth), and two questions with the
\* first answered correctly and the second unanswered score 1 and 50.0%.
C9_ScoreMatchesRows ==
    msg.title = "Quiz Summary" =>
        LET score == msg.report[Len(msg.report)]
        IN  /\ score.correct = Cardinality({k \in SummaryRows : msg.report[k].ok})
            /\ score.total = Len(questions)
            /\ 2 * (score.pct * score.total - 1000 * score.correct) <= score.total
            /\ 2 * (1000 * score.correct - score.pct * score.total) <= score.total
            /\ 0 <= score.pct /\ score.pct <= 1000
            /\ ( /\ Len(questions) = 2
                 /\ 0 \in AnsweredIndices
                 /\ user_answers[0] = questions[1].answer_letter
                 /\ 1 \notin AnsweredIndices )
               => (score.correct = 1 /\ score.pct = 500)

----------------------------------------------------------------------------
(* Option labels (harness of the option labels). *)

LowercaseOf == [A |-> "a", B |-> "b", C |-> "c", D |-> "d"]

\* The text begins with the label of position i (1-based), in capitals.
BeginsWithLabel(text, i) ==
    /\ Len(text) >= 2
    /\ text[1] = LETTER_CHOICES[i]
    /\ text[2] = ")"

\* The same, the letter in either case.
BeginsWithLabelAnyCase(text, i) ==
    /\ Len(text) >= 2
    /\ text[1] \in {LETTER_CHOICES[i], LowercaseOf[LETTER_CHOICES[i]]}
    /\ text[2] = ")"

ParserCalled == parsed_out # NotCalled

\* The options of the record the harness call returned.
OptionsOut == parsed_out[1].options

LongEnough ==
    item_options.t = "list" /\ Len(item_options.v) >= 4

\* C11 as stated: every record has no options or exactly 4, a raw list of
\* length >= 4 gives 4, and option i begins with its label "A)".."D)" in
\* capitals, whatever the raw items are.
C11_OptionsBeginWithCapitalLabel ==
    ParserCalled =>
        /\ Len(parsed_out) = 1
        /\ IF LongEnough
           THEN /\ DOMAIN OptionsOut = 1..4
                /\ \A i \in 1..4 : BeginsWithLabel(OptionsOut[i], i)
           ELSE OptionsOut = None

\* C11 amended: every record has no options or exactly 4, a raw list of
\* length >= 4 gives 4, and option i begins with its own letter, in either
\* case, followed by ")".
C11_OptionsBeginWithOwnLabel ==
    ParserCalled =>
        /\ Len(parsed_out) = 1
        /\ IF LongEnough
           THEN /\ DOMAIN OptionsOut = 1..4
                /\ \A i \in 1..4 : BeginsWithLabelAnyCase(OptionsOut[i], i)
           ELSE OptionsOut = None

\* Options labelled "A)" at the first and third position, "b)" at the
\* second, of a list of five.
C11_Witness ==
    /\ ParserCalled
    /\ item_options = List(<<Str(<<"A", ")", "x">>), Str(<<" ", "b", ")">>),
                             Str(<<"A", ")", "x">>), Num(<<"7">>), Str(<<"x">>)>>)
    /\ OptionsOut = << <<"A", ")", "x">>, <<"b", ")">>,
                       <<"C", ")", " ", "A", ")", "x">>, <<"D", ")", " ", "7">> >>

\* The options of the record, given to the parser again.
Renormalized ==
    _parse_questions_list(
        <<OptionsItem(List([i \in 1..4 |-> Str(OptionsOut[i])]))>>)[1].options

\* The trimmed text of raw option i, kept when it begins with its label.
KeepsLabelled(i) ==
    LET t == strip(str(item_options.v[i]))
    IN  BeginsWithLabelAnyCase(t, i) => OptionsOut[i] = t

\* C12 as stated: an option whose trimmed text begins with its own label is
\* kept as is, and the parser returns its own options unchanged.
C12_NormalizeIsIdempotent ==
    (ParserCalled /\ LongEnough) =>
        /\ \A i \in 1..4 : KeepsLabelled(i)
        /\ Renormalized = OptionsOut

\* C12 amended: an option whose trimmed text begins with its own label is
\* kept as is, and the parser returns its own options trimmed: unchanged,
\* except that a label followed by a space only loses the space.
C12_NormalizeKeepsLabelled ==
    (ParserCalled /\ LongEnough) =>
        /\ \A i \in 1..4 : KeepsLabelled(i)
        /\ \A i \in 1..4 :
              /\ Renormalized[i] = strip(OptionsOut[i])
              /\ OptionsOut[i] # <<LETTER_CHOICES[i], ")", " ">>
                    => Renormalized[i] = OptionsOut[i]

\* Labelled options at the first two positions, a blank one at the third.
C12_Witness ==
    /\ ParserCalled
    /\ item_options = List(<<Str(<<"A", ")", "x">>), Str(<<" ", "b", ")">>),
                             Str(<<" ">>), Str(<<"x">>)>>)
    /\ OptionsOut = << <<"A", ")", "x">>, <<"b", ")">>,
                       <<"C", ")", " ">>, <<"D", ")", " ", "x">> >>

----------------------------------------------------------------------------
(* Entries with too few options, and defective entries. *)

HasFourOptions(e) ==
    /\ "options" \in DOMAIN e.v
    /\ e.v["options"].t = "list"
    /\ Len(e.v["options"].v) >= 4

\* The score line of a summary.
ScoreLine(summary) == summary[Len(summary)]

\* Question k (1-based) of the loaded quiz, answered alone with choice a, is
\* marked and counted by the rule of every question: correct iff a is its
\* correct letter, one of Len(questions).
ScoredLikeAnyOther(k, a) ==
    LET summary == Summary(questions, (k - 1) :> a)
    IN  /\ summary[k + 1].n = k
        /\ summary[k + 1].ok = (a = questions[k].answer_letter)
        /\ ScoreLine(summary).total = Len(questions)
        /\ ScoreLine(summary).correct = IF a = questions[k].answer_letter THEN 1 ELSE 0

C14_DefectsNeverAbortLoad ==
    (document.q = "list"
       /\ \E k \in DOMAIN document.items :
             HasQuestionAndAnswer(RawEntries[document.items[k]])) =>
        /\ msg.box = "info"
        /\ msg.title = "Loaded"
        /\ Len(questions)
             = Cardinality({k \in DOMAIN document.items :
                               HasQuestionAndAnswer(RawEntries[document.items[k]])})

\* One valid entry among an entry without answer, a number, an entry without
\* question, a string, a null and an entry with options and no answer.
C14_Witness ==
    /\ document.items = <<2, 4, 5, 6, 7, 8, 10>>
    /\ msg.title = "Loaded"
    /\ Len(questions) = 1
    /\ questions[1].question = <<"Q", "5">>

HasQuestionAnswerAndOptions(e) ==
    HasQuestionAndAnswer(e) /\ HasFourOptions(e)

\* The entries of document d that have 'question', 'answer' and 4 options.
FullEntries(d) == SelectSeq(Items(d.items), HasQuestionAnswerAndOptions)

\* C15: an entry with fewer than 4 options is dropped like one without
\* question or answer, and a document whose entries all have too few
\* options fails with the no-valid-questions error.
C15_FewOptionsDropped ==
    document.q = "list" =>
        IF FullEntries(document) = <<>>
        THEN /\ msg.box = "error"
             /\ msg.text = ErrNoValid
        ELSE /\ msg.title = "Loaded"
             /\ Len(questions) = Len(FullEntries(document))

----------------------------------------------------------------------------
(* Rejected documents, titles and metadata (harness of the loader). *)

\* The root of d is a scalar, or a mapping without a 'questions' list.
IsMalformed(d) ==
    d.root = "scalar" \/ (d.root = "dict" /\ d.q # "list")

MalformedErrors == {ErrUnsupported, ErrNoQuestionsArray}

\* C16: opening a document whose root is neither a list nor a mapping with
\* a 'questions' list shows an error and installs nothing of it: questions,
\* answers, title and mode flags stay, and metadata stays or is emptied.
C16_MalformedInstallsNothing ==
    [][IsMalformed(document') =>
          /\ msg'.box = "error"
          /\ msg'.text \in MalformedErrors
          /\ UNCHANGED <<questions, user_answers, current_index, quiz_title_var,
                         learning_mode, slides_mode, choice_var, progress_var>>
          /\ (metadata' = metadata \/ DOMAIN metadata' = {})]_vars

\* A mapping with metadata, config and a 'questions' string, rejected while
\* a quiz from a flat list is loaded.
C16_Witness ==
    /\ document = [root |-> "dict", q |-> "str", items |-> <<>>, env |-> 2]
    /\ msg.text = ErrNoQuestionsArray
    /\ questions # <<>>
    /\ quiz_title_var = <<"Quiz: ", "a">>
    /\ DOMAIN metadata = {}
    /\ learning_mode = FALSE

\* C17: a document whose entry list is empty, or holds no valid entry,
\* fails with the no-valid-questions error, which is not the error of a
\* malformed document.
C17_EmptyResultErrorIsDistinct ==
    /\ (document.q = "list" /\ ValidEntries(document) = <<>>) =>
          /\ msg.box = "error"
          /\ msg.text = ErrNoValid
          /\ msg.text \notin MalformedErrors
    /\ IsMalformed(document) =>
          /\ msg.box = "error"
          /\ msg.text \in MalformedErrors
          /\ msg.text # ErrNoValid

\* {"questions": []} opened.
C17_Witness ==
    /\ document = [root |-> "dict", q |-> "list", items |-> <<>>, env |-> 1]
    /\ msg.box = "error"
    /\ msg.text = ErrNoValid

\* The name of the file opened, without directory and extension.
SourceName == <<"a">>

\* The 'metadata' member of document d, Null if it has none.
DocMetadata(d) == Get(Envelopes[d.env], "metadata", Null)

\* C18 as stated: after a flat list loads, the title is the source name and
\* metadata is empty; after a mapping loads, the title is metadata.title
\* when present, else the source name, and metadata is the document's
\* metadata mapping.
C18_TitleIsMetadataTitleWhenPresent ==
    msg.title = "Loaded" =>
        IF document.root = "list"
        THEN /\ quiz_title_var = <<"Quiz: ">> \o SourceName
             /\ DOMAIN metadata = {}
        ELSE LET md == DocMetadata(document)
             IN  IF md.t = "dict"
                 THEN /\ metadata = md.v
                      /\ quiz_title_var
                            = IF "title" \in DOMAIN md.v
                              THEN <<"Quiz: ">> \o md.v["title"].v
                              ELSE <<"Quiz: ">> \o SourceName
                 ELSE /\ DOMAIN metadata = {}
                      /\ quiz_title_var = <<"Quiz: ">> \o SourceName

\* C18 amended: as stated, the title of a mapping document being
\* metadata.title when present and not empty, else the source name.
C18_TitleIsMetadataTitleWhenNotEmpty ==
    msg.title = "Loaded" =>
        IF document.root = "list"
        THEN /\ quiz_title_var = <<"Quiz: ">> \o SourceName
             /\ DOMAIN metadata = {}
        ELSE LET md == DocMetadata(document)
             IN  IF md.t = "dict"
                 THEN /\ metadata = md.v
                      /\ quiz_title_var
                            = IF "title" \in DOMAIN md.v /\ md.v["title"].v # <<>>
                              THEN <<"Quiz: ">> \o md.v["title"].v
                              ELSE <<"Quiz: ">> \o SourceName
                 ELSE /\ DOMAIN metadata = {}
                      /\ quiz_title_var = <<"Quiz: ">> \o SourceName

\* A mapping whose metadata has an empty title, loaded after a document
\* whose config turned learning mode on (the one with metadata and title).
C18_Witness ==
    /\ msg.title = "Loaded"
    /\ document.root = "dict"
    /\ document.env = 3
    /\ learning_mode = TRUE
    /\ quiz_title_var = <<"Quiz: ", "a">>
    /\ DOMAIN metadata = {"title", "chapter"}

----------------------------------------------------------------------------
(* The text of the summary. *)

\* C19: each row of the summary shows the user's letter, or "-" when the
\* answer is absent or empty, and the correct letter, or "?" when it is
\* undeterminable.
C19_RowPlaceholders ==
    msg.title = "Quiz Summary" =>
        \A k \in SummaryRows :
            LET i == msg.report[k].n - 1
            IN  /\ msg.report[k].your
                      = IF i \in AnsweredIndices THEN user_answers[i] ELSE "-"
                /\ msg.report[k].correct
                      = IF questions[i + 1].answer_letter = ""
                        THEN "?" ELSE questions[i + 1].answer_letter

\* C20 as stated: the summary starts with the score line, followed by one
\* row per question in quiz order, numbered from 1.
C20_ScoreLineFirst ==
    msg.title = "Quiz Summary" =>
        /\ Len(msg.report) >= Len(questions) + 1
        /\ msg.report[1].kind = "score"
        /\ \A k \in 1..Len(questions) :
              /\ msg.report[k + 1].kind = "row"
              /\ msg.report[k + 1].n = k

\* C20 amended: the summary starts with the line "Results:", followed by one
\* row per question in quiz order, numbered from 1, and ends with the score
\* line.
C20_ScoreLineLast ==
    msg.title = "Quiz Summary" =>
        /\ Len(msg.report) = Len(questions) + 2
        /\ msg.report[1].kind = "header"
        /\ \A k \in 1..Len(questions) :
              /\ msg.report[k + 1].kind = "row"
              /\ msg.report[k + 1].n = k
        /\ ScoreLine(msg.report).kind = "score"
        /\ ScoreLine(msg.report).total = Len(questions)

\* The summary of a quiz of two questions.
C20_Witness ==
    /\ msg.title = "Quiz Summary"
    /\ Len(questions) = 2
    /\ Len(msg.report) = 4
    /\ msg.report[3].n = 2
    /\ msg.report[4].kind = "score"

----------------------------------------------------------------------------
(* The tolerant reader (harness of the tolerant reader). *)

ReaderCalled == loaded_out # NotRead

\* C21: a valid document whose string value holds '//', '/*', '*/' or a
\* comma before ']' is read by _read_json_loose to the value json.loads
\* gives for the text as it is.
C21_PreprocessingKeepsStrings ==
    ReaderCalled => loaded_out = loads(file_text)

----------------------------------------------------------------------------
(* The session: what the handlers change and what they leave alone. *)

\* The summary on screen is the one of the answers map as it is: each row
\* shows and marks the letter recorded last for its question.
SummaryOfRecordedLetters ==
    msg.title = "Quiz Summary" =>
        \A i \in Indices :
            /\ msg.report[i + 2].n = i + 1
            /\ i \in AnsweredIndices =>
                  /\ msg.report[i + 2].your = user_answers[i]
                  /\ msg.report[i + 2].ok
                        = (user_answers[i] = questions[i + 1].answer_letter)

\* C22: record_choice sets the answers entry of the current index to the
\* chosen letter, over any earlier one, and leaves the other entries, the
\* current index and the question list unchanged; the summary of
\* submit_quiz is that of the letters recorded last.
C22_RecordChoiceFrame ==
    [][/\ \A c \in ChoiceValues :
             record_choice(c) =>
                 /\ DOMAIN user_answers' = DOMAIN user_answers \cup {current_index}
                 /\ user_answers'[current_index] = c
                 /\ \A i \in DOMAIN user_answers \ {current_index} :
                       user_answers'[i] = user_answers[i]
                 /\ UNCHANGED <<current_index, questions>>
       /\ SummaryOfRecordedLetters']_vars

\* The summary after the first question's answer was changed from C to B,
\* the second question keeping its answer.
C22_Witness ==
    /\ msg.title = "Quiz Summary"
    /\ Len(questions) = 2
    /\ DOMAIN user_answers = {0, 1}
    /\ user_answers[0] = "B"
    /\ user_answers[1] = "C"
    /\ msg.report[2].your = "B"
    /\ msg.report[2].ok
    /\ msg.report[3].your = "C"

\* C23: submit_quiz leaves the question list, the current index, the
\* answers map and the buttons as they are, so that navigation and answering
\* go on after it, and a submission made right after another shows the
\* same summary.
C23_SubmitIsPureRead ==
    [][submit_quiz =>
          /\ UNCHANGED <<questions, current_index, user_answers, choice_var,
                         progress_var, prev_btn, next_btn, submit_btn, unanswered_btn>>
          /\ msg.title = "Quiz Summary" => msg' = msg]_vars

\* A summary shown in the middle of a session: the second question is the
\* current one, one answer is recorded, Previous is still enabled.
C23_Witness ==
    /\ msg.title = "Quiz Summary"
    /\ Len(questions) = 2
    /\ current_index = 1
    /\ DOMAIN user_answers = {0}
    /\ prev_btn = "normal"
    /\ unanswered_btn = "normal"

\* C24: Previous is enabled exactly when a quiz is loaded and the current
\* index is above 0, Next exactly when a quiz is loaded and the current
\* index is below the last.
C24_NavigationButtonsMatchIndex ==
    /\ prev_btn = "normal" <=> (questions # <<>> /\ current_index > 0)
    /\ next_btn = "normal" <=> (questions # <<>> /\ current_index < Len(questions) - 1)
    /\ prev_btn \in {"normal", "disabled"}
    /\ next_btn \in {"normal", "disabled"}

\* The last of two questions: Previous enabled, Next disabled.
C24_Witness ==
    /\ Len(questions) = 2
    /\ current_index = 1
    /\ prev_btn = "normal"
    /\ next_btn = "disabled"

\* C25: the selection shown is the stored answer of the current question,
\* the empty choice when it has none.
C25_SelectionMatchesStoredAnswer ==
    choice_var = IF current_index \in DOMAIN user_answers
                 THEN user_answers[current_index] ELSE ""

\* Back on an answered question after a visit to an unanswered one.
C25_Witness ==
    /\ Len(questions) = 2
    /\ current_index = 0
    /\ DOMAIN user_answers = {0}
    /\ user_answers[0] = "C"
    /\ choice_var = "C"
    /\ prev_btn = "disabled"
    /\ msg = NoMsg
    /\ progress_var.qn = 1

\* C26: the number of correct answers in the summary is at most the number
\* of answered questions the progress label shows.
C26_CorrectAtMostAnswered ==
    msg.title = "Quiz Summary" =>
        ScoreLine(msg.report).correct <= progress_var.answered

\* C27: once a quiz is loaded, every index of the answers map is an index
\* of the question list.
C27_AnswerKeysAreQuestionIndices ==
    questions # <<>> => DOMAIN user_answers \subseteq Indices

\* A quiz of one question, loaded from a document with metadata, with its
\* answer recorded.
C27_Witness ==
    /\ Len(questions) = 1
    /\ DOMAIN user_answers = {0}
    /\ user_answers[0] = "B"
    /\ DOMAIN metadata = {"title", "chapter"}

\* C28: a step taken with a quiz loaded ends with a quiz loaded, and a
\* summary is computed for at least one question.
C28_NeverBackToNoQuiz ==
    [][/\ questions # <<>> => questions' # <<>>
       /\ msg'.title = "Quiz Summary" =>
             /\ questions' # <<>>
             /\ ScoreLine(msg'.report).total > 0]_vars

\* A load that failed while a quiz was loaded.
C28_Witness ==
    /\ questions # <<>>
    /\ msg.box = "error"
    /\ msg.text = ErrNoValid

----------------------------------------------------------------------------
(* Filling in (harness of filling in). *)

AllAnswered == AnsweredIndices = Indices

\* C29: repeating "jump_unanswered, then record a letter" leads to every
\* question being answered, within as many iterations as there are
\* questions; from then on jump_unanswered shows 'All answered' and leaves
\* the current index and the answers alone.
C29_FillingInTerminates ==
    /\ [](fill_pc # "session" => iterations <= Len(questions))
    /\ (fill_pc = "jump") ~> (fill_pc = "jump" /\ AllAnswered)
    /\ [][(fill_pc = "jump" /\ AllAnswered) =>
              /\ msg'.title = "All answered"
              /\ UNCHANGED <<current_index, user_answers, questions, iterations>>
              /\ fill_pc' = "jump"]_vars

\* Two questions filled in by two iterations, then another jump.
C29_Witness ==
    /\ fill_pc = "jump"
    /\ Len(questions) = 2
    /\ iterations = 2
    /\ AllAnswered
    /\ msg.title = "All answered"

============================================================================
